---------------------------- MODULE Spec2Model ----------------------------
(***************************************************************************)
(* Wrapped exponentiation of circuit integers (pow_wrapped), its cost      *)
(* model (Metrics::count) and its output-mode inference (output_mode),     *)
(* driven the way tests::check_pow drives them: build two Integers, open   *)
(* a scope, run the gadget, read the scope's tally, reset the circuit.     *)
(***************************************************************************)
EXTENDS Integers, Sequences, FiniteSets, TLC

VARIABLES
    pc,        \* position of the harness: idle, ready, loop, done, counted, inferred,
               \* halted (E::halt), panicked (a failed unwrap)
    signed,    \* I is a signed integer type (static parameter of the run)
    a,         \* the base Integer<E, I>: [bits_le, mode]
    b,         \* the exponent Integer<E, M>: [bits_le, mode]
    result,    \* the running result of pow_wrapped
    i,         \* number of exponent bits still to be processed by the ladder
    trace,     \* gadget calls made inside the scope, in order
    scope,     \* <<constants, public, private, constraints>> of the scope
    metrics,   \* arguments and result of the last Metrics::count call
    inferred,  \* arguments and result of the last output_mode call
    discarded, \* history: some Circuit::reset has discarded a scope that was not empty
    callIO,    \* the call instruction under test, its bytes and its text
    isRegs,    \* the is.eq / is.neq instruction under test and its registers
    history    \* the History of a VM: its path, the files under it, its last call

\* The variables of the instruction tests, which the circuit tests leave alone.
others == <<callIO, isRegs, history>>

vars == <<pc, signed, a, b, result, i, trace, scope, metrics, inferred, discarded, callIO, isRegs,
         history>>

-----------------------------------------------------------------------------
(* Bounds of the model: the widths of the integer types of a run.          *)

\* I::BITS of the base type of a run (the gadget is generic in the width).
IBITS == 5
\* M::BITS of the exponent type of a run.
MBITS == 4
\* Largest per-field value of the Count of one mul_wrapped that is enumerated.
MaxMulCost == 20

-----------------------------------------------------------------------------
(* Modes and native fixed-width integers.                                  *)

Mode == {"Constant", "Public", "Private"}

RECURSIVE Pow2(_)
Pow2(n) == IF n = 0 THEN 1 ELSE 2 * Pow2(n - 1)

\* The value range of a native integer of the given width and signedness.
MinValue(bits, sgn) == IF sgn THEN 0 - Pow2(bits - 1) ELSE 0
MaxValue(bits, sgn) == IF sgn THEN Pow2(bits - 1) - 1 ELSE Pow2(bits) - 1
Values(bits, sgn) == MinValue(bits, sgn) .. MaxValue(bits, sgn)

\* Truncation of an unbounded integer to the width (two's complement when signed).
Wrap(x, bits, sgn) ==
    LET u == x % Pow2(bits)
    IN  IF sgn /\ u >= Pow2(bits - 1) THEN u - Pow2(bits) ELSE u

\* Native wrapping multiplication.
wrapping_mul(x, y, bits, sgn) == Wrap(x * y, bits, sgn)

\* Native wrapping power: square-and-multiply over the exponent, least
\* significant bit first, every product truncated to the width.
RECURSIVE wrapping_pow_acc(_, _, _, _, _)
wrapping_pow_acc(base, exp, acc, bits, sgn) ==
    IF exp = 0 THEN acc
    ELSE wrapping_pow_acc(wrapping_mul(base, base, bits, sgn), exp \div 2,
                          IF exp % 2 = 1 THEN wrapping_mul(acc, base, bits, sgn) ELSE acc,
                          bits, sgn)

wrapping_pow(base, exp, bits, sgn) == wrapping_pow_acc(base, exp, 1, bits, sgn)

-----------------------------------------------------------------------------
(* Integers of the circuit: little-endian boolean wires and a mode.        *)

\* The little-endian bits of a native value (index 1 is the least significant).
ToBitsLE(v, bits) == [k \in 1..bits |-> ((v % Pow2(bits)) \div Pow2(k - 1)) % 2 = 1]

RECURSIVE SumBits(_, _)
SumBits(bits_le, k) ==
    IF k = 0 THEN 0
    ELSE (IF bits_le[k] THEN Pow2(k - 1) ELSE 0) + SumBits(bits_le, k - 1)

\* Integer::new(mode, value).
NewInteger(mode, v, bits) == [bits_le |-> ToBitsLE(v, bits), mode |-> mode]

\* Integer::eject_value.
EjectValue(x, sgn) == Wrap(SumBits(x.bits_le, Len(x.bits_le)), Len(x.bits_le), sgn)

IsConstant(x) == x.mode = "Constant"

\* Integer::one().
One(bits) == NewInteger("Constant", 1, bits)

\* mul_wrapped: the native wrapping product; a Constant only when both operands are.
MulWrapped(x, y, sgn) ==
    NewInteger(IF IsConstant(x) /\ IsConstant(y) THEN "Constant" ELSE "Private",
               wrapping_mul(EjectValue(x, sgn), EjectValue(y, sgn), Len(x.bits_le), sgn),
               Len(x.bits_le))

\* Integer::ternary: a copy of the chosen operand under a Constant condition,
\* otherwise the per-wire selection, which is Private.
Ternary(cond, first, second) ==
    IF cond.mode = "Constant"
    THEN (IF cond.value THEN first ELSE second)
    ELSE [bits_le |-> [k \in 1..Len(first.bits_le) |->
                          IF cond.value THEN first.bits_le[k] ELSE second.bits_le[k]],
          mode |-> "Private"]


-----------------------------------------------------------------------------
(* The scope's tally.  A Constant Integer made inside the scope adds its   *)
(* width to the constants; a selection under a non-Constant condition adds *)
(* one private wire and one constraint per wire.  What one non-Constant    *)
(* mul_wrapped adds is recorded as a call of the trace.                    *)

ZeroTally == <<0, 0, 0, 0>>

AddTally(s, t) == <<s[1] + t[1], s[2] + t[2], s[3] + t[3], s[4] + t[4]>>

ConstantTally(x) == IF IsConstant(x) THEN <<Len(x.bits_le), 0, 0, 0>> ELSE ZeroTally

TernaryTally(cond, bits) == IF cond.mode = "Constant" THEN ZeroTally ELSE <<0, 0, bits, bits>>

\* A call of the trace: the gadget, its second argument, the operands' modes.
MulCall(x, y, arg) == [op |-> "mul_wrapped", arg |-> arg, lhs |-> x.mode, rhs |-> y.mode]

TernaryCall(cond) == [op |-> "ternary", arg |-> "bit", lhs |-> cond.mode, rhs |-> cond.mode]

-----------------------------------------------------------------------------
(* pow_wrapped.                                                            *)

\* The test of the fast path: both operands are Constant.
IsFastPath_Never(self, other) == FALSE

IsFastPath(self, other) == IsConstant(self) /\ IsConstant(other)

\* The widths of u8 and of u32.
U8_BITS == 8
U32_BITS == 32

RECURSIVE BitLength(_)
BitLength(v) == IF v = 0 THEN 0 ELSE 1 + BitLength(v \div 2)

\* to_u32: the value as a u32, or None when it is negative or does not fit.
to_u32(v) ==
    IF v >= 0 /\ BitLength(v) <= U32_BITS
    THEN [some |-> TRUE, value |-> v]
    ELSE [some |-> FALSE, value |-> 0]

\* other.to_u32() of the fast path, which pow_wrapped unwraps.
FastPathExponent_Signed(other) == to_u32(EjectValue(other, TRUE))

FastPathExponent(other) == to_u32(EjectValue(other, FALSE))

\* The fast path: the native wrapping power of the ejected values, as a Constant.
PowWrappedFast(self, other, sgn) ==
    NewInteger("Constant",
               wrapping_pow(EjectValue(self, sgn), EjectValue(other, FALSE),
                            Len(self.bits_le), sgn),
               Len(self.bits_le))

\* One iteration of the ladder for one exponent bit: the squaring, the product
\* with the base and the selection; with the calls made and what they add to
\* the scope.
LadderStep_NoSquare(res, self, bit, sgn) ==
    LET cand == MulWrapped(res, self, sgn)
    IN  [result |-> Ternary(bit, cand, res),
         calls  |-> <<MulCall(res, self, "self"), TernaryCall(bit)>>,
         tally  |-> AddTally(ConstantTally(cand), TernaryTally(bit, Len(res.bits_le)))]

LadderStep_MulFirst(res, self, bit, sgn) ==
    LET cand    == MulWrapped(res, self, sgn)
        chosen  == Ternary(bit, cand, res)
        squared == MulWrapped(chosen, chosen, sgn)
    IN  [result |-> squared,
         calls  |-> <<MulCall(res, self, "self"), TernaryCall(bit), MulCall(chosen, chosen, "result")>>,
         tally  |-> AddTally(ConstantTally(squared),
                        AddTally(ConstantTally(cand), TernaryTally(bit, Len(res.bits_le))))]

LadderStep_Branch(res, self, bit, sgn) ==
    LET squared == MulWrapped(res, res, sgn)
        cand    == MulWrapped(squared, self, sgn)
    IN  IF bit.value
        THEN [result |-> cand,
              calls  |-> <<MulCall(res, res, "result"), MulCall(squared, self, "self")>>,
              tally  |-> AddTally(ConstantTally(squared), ConstantTally(cand))]
        ELSE [result |-> squared,
              calls  |-> <<MulCall(res, res, "result")>>,
              tally  |-> ConstantTally(squared)]

LadderStep(res, self, bit, sgn) ==
    LET squared == MulWrapped(res, res, sgn)
        cand    == MulWrapped(squared, self, sgn)
    IN  [result |-> Ternary(bit, cand, squared),
         calls  |-> <<MulCall(res, res, "result"), MulCall(squared, self, "self"), TernaryCall(bit)>>,
         tally  |-> AddTally(ConstantTally(squared),
                        AddTally(ConstantTally(cand), TernaryTally(bit, Len(res.bits_le))))]

-----------------------------------------------------------------------------
(* The cost model.                                                         *)

\* Count::is and Count::less_than.
CountIs(c, pu, pr, cn) == [kind |-> "is", n |-> <<c, pu, pr, cn>>]
CountLessThan(c, pu, pr, cn) == [kind |-> "less_than", n |-> <<c, pu, pr, cn>>]

\* scalar * Count
CountScale(k, c) == [kind |-> c.kind, n |-> <<k * c.n[1], k * c.n[2], k * c.n[3], k * c.n[4]>>]

\* Count + Count: exact only when both are.
CountAdd(c, d) ==
    [kind |-> IF c.kind = "is" /\ d.kind = "is" THEN "is" ELSE "less_than",
     n |-> AddTally(c.n, d.n)]

\* Count::matches of a tally.
CountMatches(c, t) ==
    IF c.kind = "is" THEN t = c.n
    ELSE \A k \in 1..4 : t[k] <= c.n[k]

\* Metrics::count of pow_wrapped; mul_count is what count! returns for one
\* mul_wrapped at the same case.
count_Single(ibits, mbits, case, mul_count) ==
    IF case[1] = "Constant" /\ case[2] = "Constant"
    THEN CountIs(ibits, 0, 0, 0)
    ELSE CountAdd(CountScale(mbits, mul_count), CountIs(2 * ibits, 0, ibits, ibits))

count(ibits, mbits, case, mul_count) ==
    IF case[1] = "Constant" /\ case[2] = "Constant"
    THEN CountIs(ibits, 0, 0, 0)
    ELSE IF case[1] = "Constant" \/ case[2] = "Constant"
    THEN CountAdd(CountScale(2 * mbits, mul_count), CountIs(2 * ibits, 0, ibits, ibits))
    ELSE CountAdd(CountScale(2 * mbits, mul_count), CountIs(2 * ibits, 0, ibits, ibits))

\* The tallies the tests of u8 ^ u8 assert, by case.
TestCountU8U8(case) ==
    IF case[1] = "Constant" /\ case[2] = "Constant" THEN CountIs(8, 0, 0, 0)
    ELSE IF case[1] = "Constant" THEN CountLessThan(136, 0, 259, 273)
    ELSE IF case[2] = "Constant" THEN CountLessThan(72, 0, 237, 252)
    ELSE CountIs(16, 0, 301, 316)

-----------------------------------------------------------------------------
(* Output-mode inference.                                                  *)

\* CircuitType::from(&integer): the Constant with its value, or the bare mode.
CircuitTypeFrom(x) ==
    IF IsConstant(x) THEN [tag |-> "Constant", value |-> x] ELSE [tag |-> x.mode]

\* CircuitType::mode.
CircuitTypeMode(ct) == ct.tag

IsConstantVariant(ct) == ct.tag = "Constant" /\ "value" \in DOMAIN ct

output_mode_Guess(case) ==
    IF case[1] = "Constant" /\ CircuitTypeMode(case[2]) = "Constant" THEN "Constant"
    ELSE IF case[1] = "Constant" THEN "Private"
    ELSE IF CircuitTypeMode(case[2]) = "Constant"
    THEN (IF IsConstantVariant(case[2]) /\ EjectValue(case[2].value, FALSE) = 0
          THEN "Constant" ELSE "Private")
    ELSE "Private"

output_mode_NoZero(case) ==
    IF case[1] = "Constant" /\ CircuitTypeMode(case[2]) = "Constant" THEN "Constant"
    ELSE "Private"

output_mode_Public(case) ==
    IF case[1] = "Constant" /\ CircuitTypeMode(case[2]) = "Constant" THEN "Constant"
    ELSE IF case[1] = "Constant" THEN CircuitTypeMode(case[2])
    ELSE IF CircuitTypeMode(case[2]) = "Constant"
    THEN (IF IsConstantVariant(case[2])
          THEN (IF EjectValue(case[2].value, FALSE) = 0 THEN "Constant" ELSE "Private")
          ELSE "halt")
    ELSE "Private"

output_mode(case) ==
    IF case[1] = "Constant" /\ CircuitTypeMode(case[2]) = "Constant" THEN "Constant"
    ELSE IF case[1] = "Constant"
    THEN (IF CircuitTypeMode(case[2]) = "Constant" THEN "Constant" ELSE "Private")
    ELSE IF CircuitTypeMode(case[2]) = "Constant"
    THEN (IF IsConstantVariant(case[2])
          THEN (IF EjectValue(case[2].value, FALSE) = 0 THEN "Constant" ELSE "Private")
          ELSE "halt")
    ELSE "Private"

-----------------------------------------------------------------------------
(* The state machine.                                                      *)

\* The widths of the integer types and of the magnitudes of the library.
IntegerBits == {8, 16, 32, 64, 128}
MagnitudeBits == {8, 16, 32}

\* The Counts one mul_wrapped may have at a case.
MulCounts(ibits) ==
    {[kind |-> k, n |-> <<c, 0, pr, cn>>] :
        k \in {"is", "less_than"}, c \in {0, ibits}, pr \in 0..MaxMulCost, cn \in 0..MaxMulCost}

\* The CircuitTypes of an exponent: a Constant with its value, Public, Private.
ExponentTypes ==
    {CircuitTypeFrom(NewInteger("Constant", v, MBITS)) : v \in Values(MBITS, FALSE)}
        \cup {[tag |-> "Public"], [tag |-> "Private"]}

\* A CircuitType whose mode is Constant and whose value is not there.
ErasedTypes == {[tag |-> "Constant"]}

NoInteger == NewInteger("Constant", 0, 1)
NoMetrics == [ibits |-> 0, mbits |-> 0, case |-> <<"Constant", "Constant">>,
              mul_count |-> CountIs(0, 0, 0, 0), result |-> CountIs(0, 0, 0, 0)]
NoInference == [case |-> <<"Constant", [tag |-> "Public"]>>, result |-> "Private"]
NoCallIO == [op |-> "none"]
NoIsRegs == [op |-> "none"]
NoHistory == [op |-> "none"]

Init ==
    /\ pc = "idle"
    /\ signed = FALSE
    /\ a = NoInteger
    /\ b = NoInteger
    /\ result = NoInteger
    /\ i = 0
    /\ trace = <<>>
    /\ scope = ZeroTally
    /\ metrics = NoMetrics
    /\ inferred = NoInference
    /\ discarded = FALSE
    /\ callIO = NoCallIO
    /\ isRegs = NoIsRegs
    /\ history = NoHistory

\* check_pow: the two Integers are made, outside the scope.
NewInputs ==
    /\ pc = "idle"
    /\ \E sgn \in BOOLEAN, mode_a \in Mode, mode_b \in Mode :
         \E first \in Values(IBITS, sgn), second \in Values(MBITS, FALSE) :
            /\ signed' = sgn
            /\ a' = NewInteger(mode_a, first, IBITS)
            /\ b' = NewInteger(mode_b, second, MBITS)
    /\ pc' = "ready"
    /\ UNCHANGED <<result, i, trace, scope, metrics, inferred, discarded, others>>

\* pow_wrapped, entered with both operands Constant: the fast path.
PowWrappedConstant ==
    /\ pc = "ready"
    /\ IsFastPath(a, b)
    /\ IF FastPathExponent(b).some
       THEN /\ result' = PowWrappedFast(a, b, signed)
            /\ scope' = AddTally(scope, ConstantTally(result'))
            /\ pc' = "done"
       ELSE /\ pc' = "panicked"
            /\ UNCHANGED <<result, scope>>
    /\ UNCHANGED <<signed, a, b, i, trace, metrics, inferred, discarded, others>>

\* pow_wrapped, entered with a non-Constant operand: the result starts at one.
PowWrappedEnter ==
    /\ pc = "ready"
    /\ ~IsFastPath(a, b)
    /\ result' = One(Len(a.bits_le))
    /\ scope' = AddTally(scope, ConstantTally(result'))
    /\ i' = Len(b.bits_le)
    /\ pc' = "loop"
    /\ UNCHANGED <<signed, a, b, trace, metrics, inferred, discarded, others>>

\* One iteration of the loop over the exponent's bits, most significant first.
LadderIteration ==
    /\ pc = "loop"
    /\ i > 0
    /\ LET step == LadderStep(result, a, [value |-> b.bits_le[i], mode |-> b.mode], signed)
       IN  /\ result' = step.result
           /\ trace' = trace \o step.calls
           /\ scope' = AddTally(scope, step.tally)
    /\ i' = i - 1
    /\ UNCHANGED <<pc, signed, a, b, metrics, inferred, discarded, others>>

\* The loop is over: pow_wrapped returns the result.
PowWrappedReturn ==
    /\ pc = "loop"
    /\ i = 0
    /\ pc' = "done"
    /\ UNCHANGED <<signed, a, b, result, i, trace, scope, metrics, inferred, discarded, others>>

\* Metrics::count is asked for the Count of a case.
MetricsCount ==
    /\ pc = "idle"
    /\ \E ibits \in IntegerBits, mbits \in MagnitudeBits, m1 \in Mode, m2 \in Mode :
         \E mul_count \in MulCounts(ibits) :
            metrics' = [ibits |-> ibits, mbits |-> mbits, case |-> <<m1, m2>>,
                        mul_count |-> mul_count,
                        result |-> count(ibits, mbits, <<m1, m2>>, mul_count)]
    /\ pc' = "counted"
    /\ UNCHANGED <<signed, a, b, result, i, trace, scope, inferred, discarded, others>>

\* output_mode is asked for the Mode of a case.
OutputMode ==
    /\ pc = "idle"
    /\ \E m \in Mode, ct \in ExponentTypes :
         inferred' = [case |-> <<m, ct>>, result |-> output_mode(<<m, ct>>)]
    /\ pc' = IF inferred'.result = "halt" THEN "halted" ELSE "inferred"
    /\ UNCHANGED <<signed, a, b, result, i, trace, scope, metrics, discarded, others>>

Reset_KeepScope ==
    /\ pc \in {"done", "counted", "inferred"}
    /\ pc' = "idle"
    /\ signed' = FALSE
    /\ a' = NoInteger
    /\ b' = NoInteger
    /\ result' = NoInteger
    /\ i' = 0
    /\ metrics' = NoMetrics
    /\ inferred' = NoInference
    /\ discarded' = (discarded \/ scope # ZeroTally)
    /\ UNCHANGED <<trace, scope, others>>

\* Circuit::reset: the scope and everything synthesized are discarded.
Reset ==
    /\ pc \in {"done", "counted", "inferred"}
    /\ pc' = "idle"
    /\ signed' = FALSE
    /\ a' = NoInteger
    /\ b' = NoInteger
    /\ result' = NoInteger
    /\ i' = 0
    /\ trace' = <<>>
    /\ scope' = ZeroTally
    /\ metrics' = NoMetrics
    /\ inferred' = NoInference
    /\ discarded' = (discarded \/ scope # ZeroTally)
    /\ UNCHANGED others

Next ==
    \/ NewInputs
    \/ PowWrappedConstant
    \/ PowWrappedEnter
    \/ LadderIteration
    \/ PowWrappedReturn
    \/ MetricsCount
    \/ OutputMode
    \/ Reset

Spec == Init /\ [][Next]_vars

\* output_mode is asked for a case whose exponent is a Constant without its value.
OutputModeErased ==
    /\ pc = "idle"
    /\ \E m \in Mode, ct \in ErasedTypes :
         inferred' = [case |-> <<m, ct>>, result |-> output_mode(<<m, ct>>)]
    /\ pc' = IF inferred'.result = "halt" THEN "halted" ELSE "inferred"
    /\ UNCHANGED <<signed, a, b, result, i, trace, scope, metrics, discarded, others>>

NextErased ==
    \/ Next
    \/ OutputModeErased

\* The circuit tests with callers that erase the value of a Constant exponent.
SpecErased == Init /\ [][NextErased]_vars

\* check_pow on u8 ^ u8, with the exponents run_test uses and the boundary scenario.
NewInputsU8 ==
    /\ pc = "idle"
    /\ \E mode_a \in Mode, mode_b \in Mode :
         \E first \in Values(U8_BITS, FALSE), second \in {0, 1, 2, 3, MaxValue(U8_BITS, FALSE)} :
            /\ a' = NewInteger(mode_a, first, U8_BITS)
            /\ b' = NewInteger(mode_b, second, U8_BITS)
    /\ signed' = FALSE
    /\ pc' = "ready"
    /\ UNCHANGED <<result, i, trace, scope, metrics, inferred, discarded, others>>

NextU8 ==
    \/ NewInputsU8
    \/ PowWrappedConstant
    \/ PowWrappedEnter
    \/ LadderIteration
    \/ PowWrappedReturn
    \/ Reset

\* The tests of u8 ^ u8.
SpecU8 == Init /\ [][NextU8]_vars

-----------------------------------------------------------------------------
(* Properties.                                                             *)

\* The power by repeated multiplication, reduced to the width at every step:
\* base^exp modulo 2^bits, in two's complement when signed.
RECURSIVE PowMod(_, _, _, _)
PowMod(base, exp, bits, sgn) ==
    IF exp = 0 THEN Wrap(1, bits, sgn)
    ELSE Wrap(base * PowMod(base, exp - 1, bits, sgn), bits, sgn)

Base == EjectValue(a, signed)
Exponent == EjectValue(b, FALSE)
Returned == pc = "done"
BothConstant == IsConstant(a) /\ IsConstant(b)

\* C1: for every base value, exponent value and mode pair, the value of the
\* Integer pow_wrapped returns is base^exponent reduced modulo 2^I::BITS.
C1_WrappingCorrectness ==
    Returned => EjectValue(result, signed) = PowMod(Base, Exponent, IBITS, signed)

\* C1 witness: a Private base to a Public exponent whose power is truncated.
C1_Witness ==
    /\ Returned
    /\ ~signed
    /\ a.mode = "Private"
    /\ b.mode = "Public"
    /\ Base = MaxValue(IBITS, FALSE)
    /\ Exponent = 3
    /\ EjectValue(result, signed) = MaxValue(IBITS, FALSE)

\* C2: for an 8-bit base and an 8-bit exponent, both non-Constant, the Count of
\* the cost model is the tally the tests assert, (16, 0, 301, 316).
C2_CountIsTestTally ==
    (/\ pc = "counted"
     /\ metrics.ibits = 8
     /\ metrics.mbits = 8
     /\ metrics.case[1] # "Constant"
     /\ metrics.case[2] # "Constant")
        => /\ TestCountU8U8(metrics.case).n = <<16, 0, 301, 316>>
           /\ metrics.result.n = TestCountU8U8(metrics.case).n

\* Supporting C2: whatever the Count of one mul_wrapped, the Count of that case
\* differs from the tally of the tests in its private wires and constraints.
C2_NoMulCountGivesTestTally ==
    (/\ pc = "counted"
     /\ metrics.ibits = 8
     /\ metrics.mbits = 8
     /\ metrics.case[1] # "Constant"
     /\ metrics.case[2] # "Constant")
        => /\ metrics.result.n[3] # TestCountU8U8(metrics.case).n[3]
           /\ metrics.result.n[4] # TestCountU8U8(metrics.case).n[4]

C4_IdentityLaws ==
    Returned =>
        /\ Exponent = 0 => EjectValue(result, signed) = 1
        /\ Exponent = 1 => EjectValue(result, signed) = Base

\* C4 witness: MIN of a signed type to the exponent one, on the general path.
C4_Witness ==
    /\ Returned
    /\ signed
    /\ ~BothConstant
    /\ Base = MinValue(IBITS, TRUE)
    /\ Exponent = 1
    /\ EjectValue(result, signed) = MinValue(IBITS, TRUE)

\* C5: x.pow_wrapped(2) is mul_wrapped(x, x) and x.pow_wrapped(3) is
\* mul_wrapped(mul_wrapped(x, x), x), for every x and mode pair.
C5_SquareAndCube ==
    Returned =>
        /\ Exponent = 2 => EjectValue(result, signed) = EjectValue(MulWrapped(a, a, signed), signed)
        /\ Exponent = 3 =>
              EjectValue(result, signed) =
                  EjectValue(MulWrapped(MulWrapped(a, a, signed), a, signed), signed)

\* C5 witness: the cube of a value whose square and cube are both truncated.
C5_Witness ==
    /\ Returned
    /\ ~BothConstant
    /\ ~signed
    /\ Base = MaxValue(IBITS, FALSE) - 1
    /\ Exponent = 3
    /\ Base * Base > MaxValue(IBITS, FALSE)

\* C6: with both operands Constant pow_wrapped runs no ladder iteration and
\* makes no gadget call, returns a Constant holding the native wrapping power,
\* and the scope's tally is exactly (I::BITS, 0, 0, 0).
C6_FastPath ==
    (Returned /\ BothConstant) =>
        /\ trace = <<>>
        /\ result.mode = "Constant"
        /\ EjectValue(result, signed) = PowMod(Base, Exponent, IBITS, signed)
        /\ scope = <<IBITS, 0, 0, 0>>

\* C6 witness: a Constant base to a Constant exponent, both at least two.
C6_Witness ==
    /\ Returned
    /\ BothConstant
    /\ Base >= 2
    /\ Exponent >= 2
    /\ scope = <<IBITS, 0, 0, 0>>

\* The calls of a ladder of n iterations: a squaring, a product with the base
\* and a selection, n times over.
LadderCalls(n) ==
    [k \in 1..(3 * n) |->
        IF k % 3 = 1 THEN <<"mul_wrapped", "result">>
        ELSE IF k % 3 = 2 THEN <<"mul_wrapped", "self">>
        ELSE <<"ternary", "bit">>]

CallsOf(t) == [k \in 1..Len(t) |-> <<t[k].op, t[k].arg>>]

\* C7: with a non-Constant operand pow_wrapped makes exactly the calls of a
\* ladder of M::BITS iterations, 2 * M::BITS multiplications among them, in
\* an order no exponent value changes.
C7_FixedLadder ==
    (pc \in {"loop", "done"} /\ ~BothConstant) =>
        /\ CallsOf(trace) = LadderCalls(MBITS - i)
        /\ Returned =>
              /\ i = 0
              /\ Cardinality({k \in 1..Len(trace) : trace[k].op = "mul_wrapped"}) = 2 * MBITS

\* C7 witness: a Private exponent of value zero still runs the whole ladder.
C7_Witness ==
    /\ Returned
    /\ b.mode = "Private"
    /\ Exponent = 0
    /\ Len(trace) = 3 * MBITS

\* C8: the Count is Count::is(I::BITS, 0, 0, 0) for two Constants and for
\* every other case 2 * M::BITS times the Count of one mul_wrapped at the case
\* plus Count::is(2 * I::BITS, 0, I::BITS, I::BITS).
C8_CountFormula ==
    pc = "counted" =>
        metrics.result =
            IF metrics.case = <<"Constant", "Constant">>
            THEN CountIs(metrics.ibits, 0, 0, 0)
            ELSE CountAdd(CountScale(2 * metrics.mbits, metrics.mul_count),
                          CountIs(2 * metrics.ibits, 0, metrics.ibits, metrics.ibits))

\* C8 witness: a Public base and a Constant exponent, with a mul_wrapped that costs.
C8_Witness ==
    /\ pc = "counted"
    /\ metrics.case = <<"Public", "Constant">>
    /\ metrics.mul_count.n[3] > 0
    /\ metrics.result.n[3] = 2 * metrics.mbits * metrics.mul_count.n[3] + metrics.ibits

\* C9: for a non-Constant base and a Constant exponent of known value,
\* output_mode is Constant when the value is zero and Private otherwise.
C9_ConstantExponent ==
    (/\ pc = "inferred"
     /\ inferred.case[1] # "Constant"
     /\ IsConstantVariant(inferred.case[2]))
        => inferred.result =
              IF EjectValue(inferred.case[2].value, FALSE) = 0 THEN "Constant" ELSE "Private"

\* C9 witness: a Public base and the Constant exponent zero.
C9_Witness ==
    /\ pc = "inferred"
    /\ inferred.case[1] = "Public"
    /\ IsConstantVariant(inferred.case[2])
    /\ EjectValue(inferred.case[2].value, FALSE) = 0
    /\ inferred.result = "Constant"

\* C10: output_mode is Constant for a Constant base and a Constant exponent of
\* any value, Private for a Constant base and a non-Constant exponent, Private
\* for two non-Constants, and never Public.
C10_RulesInOrder ==
    pc = "inferred" =>
        /\ (inferred.case[1] = "Constant" /\ CircuitTypeMode(inferred.case[2]) = "Constant")
              => inferred.result = "Constant"
        /\ (inferred.case[1] = "Constant" /\ CircuitTypeMode(inferred.case[2]) # "Constant")
              => inferred.result = "Private"
        /\ (inferred.case[1] # "Constant" /\ CircuitTypeMode(inferred.case[2]) # "Constant")
              => inferred.result = "Private"
        /\ inferred.result \in {"Constant", "Private"}

\* C10 witness: a Constant base and a non-zero Constant exponent.
C10_Witness ==
    /\ pc = "inferred"
    /\ inferred.case[1] = "Constant"
    /\ IsConstantVariant(inferred.case[2])
    /\ EjectValue(inferred.case[2].value, FALSE) > 0
    /\ inferred.result = "Constant"

\* C11: for a non-Constant base and an exponent whose mode is Constant and
\* whose value is not there, output_mode halts and gives no Mode.
C11_ErasedConstantHalts ==
    (/\ pc \in {"inferred", "halted"}
     /\ inferred.case[1] # "Constant"
     /\ CircuitTypeMode(inferred.case[2]) = "Constant"
     /\ ~IsConstantVariant(inferred.case[2]))
        => /\ pc = "halted"
           /\ inferred.result = "halt"
           /\ inferred.result \notin Mode

\* C11 witness: a Private base and an erased Constant exponent have halted.
C11_Witness ==
    /\ pc = "halted"
    /\ inferred.case[1] = "Private"
    /\ inferred.case[2] \in ErasedTypes
    /\ inferred.result = "halt"

\* C12: pow_wrapped never fails: the unwrap of the fast path never panics,
\* every iteration of the loop has an exponent bit to read and the loop ends
\* when none is left, and what is returned is an Integer of the base's
\* width, however large the power.
C12_Total ==
    /\ pc # "panicked"
    /\ pc = "loop" => i \in 0..Len(b.bits_le)
    /\ Returned =>
          /\ i = 0
          /\ Len(result.bits_le) = Len(a.bits_le)
          /\ EjectValue(result, signed) \in Values(IBITS, signed)

\* C12 witness: MAX to the power MAX on the fast path, truncated.
C12_Witness ==
    /\ Returned
    /\ BothConstant
    /\ ~signed
    /\ Base = MaxValue(IBITS, FALSE)
    /\ Exponent = MaxValue(MBITS, FALSE)
    /\ EjectValue(result, signed) = MaxValue(IBITS, FALSE)

\* pow_wrapped as a function of its operands alone: the ladder over the k
\* least significant bits of the exponent still to be processed.
RECURSIVE LadderFrom(_, _, _, _, _)
LadderFrom(res, self, other, k, sgn) ==
    IF k = 0 THEN [result |-> res, calls |-> <<>>, tally |-> ZeroTally]
    ELSE LET step == LadderStep(res, self, [value |-> other.bits_le[k], mode |-> other.mode], sgn)
             rest == LadderFrom(step.result, self, other, k - 1, sgn)
         IN  [result |-> rest.result,
              calls  |-> step.calls \o rest.calls,
              tally  |-> AddTally(step.tally, rest.tally)]

PowWrappedOf(self, other, sgn) ==
    IF IsFastPath(self, other)
    THEN LET r == PowWrappedFast(self, other, sgn)
         IN  [result |-> r, calls |-> <<>>, tally |-> ConstantTally(r)]
    ELSE LET one == One(Len(self.bits_le))
             run == LadderFrom(one, self, other, Len(other.bits_le), sgn)
         IN  [result |-> run.result, calls |-> run.calls,
              tally |-> AddTally(ConstantTally(one), run.tally)]

BoundaryScenario ==
    /\ Returned
    /\ ~signed
    /\ Len(a.bits_le) = U8_BITS
    /\ Len(b.bits_le) = U8_BITS
    /\ a.mode = "Private"
    /\ b.mode = "Public"
    /\ Base = 200
    /\ Exponent = 3

\* C14 as stated: in the boundary scenario pow_wrapped returns
\* 200u8.wrapping_pow(3), and that value is 32.
C14_BoundaryIs32 ==
    BoundaryScenario =>
        /\ EjectValue(result, signed) = wrapping_pow(200, 3, U8_BITS, FALSE)
        /\ EjectValue(result, signed) = 32

\* C14 amended: in the boundary scenario pow_wrapped returns
\* 200u8.wrapping_pow(3), and that value is 0 (200^3 = 8,000,000 = 31250 * 256).
C14_BoundaryIs0 ==
    BoundaryScenario =>
        /\ EjectValue(result, signed) = wrapping_pow(200, 3, U8_BITS, FALSE)
        /\ EjectValue(result, signed) = 0

\* C14 witness: the boundary scenario has run.
C14_Witness ==
    /\ BoundaryScenario
    /\ EjectValue(result, signed) = 0
    /\ Len(trace) = 3 * U8_BITS

-----------------------------------------------------------------------------
(* The call instruction: its operator, operands and destinations, their    *)
(* bytes and their text.                                                   *)

\* N::MAX_OPERANDS of the network of a run.
MAX_OPERANDS == 2
\* Longest buffer handed to read_le that no write_le produced.
MaxBufferLen == 5
\* Longest token string handed to from_str that no Display produced: the
\* opcode, the operator, 'into', and one register more than the bound.
MaxTokens == MAX_OPERANDS + 4

\* The values of a byte that are enumerated in a buffer: the discriminants,
\* one value that is none, and the counts up to one past the bound.
Bytes == 0..(MAX_OPERANDS + 1)

\* The sequences over S of length at most n.
SeqUpTo(S, n) == UNION {[1..k -> S] : k \in 0..n}

\* The identifiers, as the byte each is written as.
Identifiers == {0, 1}

\* Register::Locator(n) and Register::Member(n, path), with paths of one identifier.
RegisterLocator(n) == [variant |-> "Locator", locator |-> n]
RegisterMember(n, id) == [variant |-> "Member", locator |-> n, member |-> id]

\* Operand::Literal and Operand::Register.
OperandLiteral(v) == [variant |-> "Literal", literal |-> v]
OperandRegister(reg) == [variant |-> "Register", register |-> reg]

\* CallOperator::Locator and CallOperator::Resource.
OperatorLocator(program, resource) ==
    [variant |-> "Locator", program |-> program, resource |-> resource]
OperatorResource(name) == [variant |-> "Resource", name |-> name]

NewCall(operator, operands, destinations) ==
    [operator |-> operator, operands |-> operands, destinations |-> destinations]

\* The results of a reader: a value and the bytes left, or an error.
ReadOk(v, rest) == [ok |-> TRUE, value |-> v, rest |-> rest]
ReadErr == [ok |-> FALSE]

\* u8::read_le.
ReadU8(buf) == IF Len(buf) = 0 THEN ReadErr ELSE ReadOk(buf[1], Tail(buf))

\* usize as u8.
AsU8(n) == n % 256

\* Identifier::read_le and write_le.
IdentifierRead(buf) ==
    LET b0 == ReadU8(buf)
    IN  IF b0.ok /\ b0.value \in Identifiers THEN b0 ELSE ReadErr

IdentifierWrite(id) == <<id>>

\* Register::read_le and write_le: the variant, the locator, the member.
RegisterRead(buf) ==
    LET v == ReadU8(buf)
    IN  IF ~v.ok THEN ReadErr
        ELSE LET n == ReadU8(v.rest)
             IN  IF ~n.ok THEN ReadErr
                 ELSE IF v.value = 0 THEN ReadOk(RegisterLocator(n.value), n.rest)
                 ELSE IF v.value = 1
                 THEN LET id == IdentifierRead(n.rest)
                      IN  IF id.ok THEN ReadOk(RegisterMember(n.value, id.value), id.rest)
                          ELSE ReadErr
                 ELSE ReadErr

RegisterWrite(reg) ==
    IF reg.variant = "Locator" THEN <<0, reg.locator>>
    ELSE <<1, reg.locator>> \o IdentifierWrite(reg.member)

\* Operand::read_le and write_le: the variant, then the literal or the register.
OperandRead(buf) ==
    LET v == ReadU8(buf)
    IN  IF ~v.ok THEN ReadErr
        ELSE IF v.value = 0
        THEN LET l == ReadU8(v.rest)
             IN  IF l.ok THEN ReadOk(OperandLiteral(l.value), l.rest) ELSE ReadErr
        ELSE IF v.value = 1
        THEN LET r == RegisterRead(v.rest)
             IN  IF r.ok THEN ReadOk(OperandRegister(r.value), r.rest) ELSE ReadErr
        ELSE ReadErr

OperandWrite(operand) ==
    IF operand.variant = "Literal" THEN <<0, operand.literal>>
    ELSE <<1>> \o RegisterWrite(operand.register)

\* Locator::read_le and write_le: the program, then the resource.
LocatorRead(buf) ==
    LET p == IdentifierRead(buf)
    IN  IF ~p.ok THEN ReadErr
        ELSE LET r == IdentifierRead(p.rest)
             IN  IF r.ok THEN ReadOk(OperatorLocator(p.value, r.value), r.rest) ELSE ReadErr

LocatorWrite(operator) == IdentifierWrite(operator.program) \o IdentifierWrite(operator.resource)

\* CallOperator::read_le.
CallOperatorRead_AnyVariant(buf) ==
    LET variant == ReadU8(buf)
    IN  IF ~variant.ok THEN ReadErr
        ELSE IF variant.value = 0 THEN LocatorRead(variant.rest)
        ELSE LET id == IdentifierRead(variant.rest)
             IN  IF id.ok THEN ReadOk(OperatorResource(id.value), id.rest) ELSE ReadErr

CallOperatorRead(buf) ==
    LET variant == ReadU8(buf)
    IN  IF ~variant.ok THEN ReadErr
        ELSE IF variant.value = 0 THEN LocatorRead(variant.rest)
        ELSE IF variant.value = 1
        THEN LET id == IdentifierRead(variant.rest)
             IN  IF id.ok THEN ReadOk(OperatorResource(id.value), id.rest) ELSE ReadErr
        ELSE ReadErr

\* CallOperator::write_le.
CallOperatorWrite(operator) ==
    IF operator.variant = "Locator" THEN <<0>> \o LocatorWrite(operator)
    ELSE <<1>> \o IdentifierWrite(operator.name)

\* The loops of Call::read_le: n operands, n destinations.
RECURSIVE ReadOperands(_, _)
ReadOperands(buf, n) ==
    IF n = 0 THEN ReadOk(<<>>, buf)
    ELSE LET o == OperandRead(buf)
         IN  IF ~o.ok THEN ReadErr
             ELSE LET more == ReadOperands(o.rest, n - 1)
                  IN  IF more.ok THEN ReadOk(<<o.value>> \o more.value, more.rest) ELSE ReadErr

RECURSIVE ReadDestinations(_, _)
ReadDestinations(buf, n) ==
    IF n = 0 THEN ReadOk(<<>>, buf)
    ELSE LET r == RegisterRead(buf)
         IN  IF ~r.ok THEN ReadErr
             ELSE LET more == ReadDestinations(r.rest, n - 1)
                  IN  IF more.ok THEN ReadOk(<<r.value>> \o more.value, more.rest) ELSE ReadErr

RECURSIVE Concat(_)
Concat(ss) == IF Len(ss) = 0 THEN <<>> ELSE Head(ss) \o Concat(Tail(ss))

\* Call::read_le: the operator, a count byte, the operands, a count byte,
\* the destinations; a count above the bound is an error.
CallReadLe(buf) ==
    LET operator == CallOperatorRead(buf)
    IN  IF ~operator.ok THEN ReadErr
        ELSE LET num_operands == ReadU8(operator.rest)
             IN  IF ~num_operands.ok THEN ReadErr
                 ELSE IF num_operands.value > MAX_OPERANDS THEN ReadErr
                 ELSE LET operands == ReadOperands(num_operands.rest, num_operands.value)
                      IN  IF ~operands.ok THEN ReadErr
                          ELSE LET num_destinations == ReadU8(operands.rest)
                               IN  IF ~num_destinations.ok THEN ReadErr
                                   ELSE IF num_destinations.value > MAX_OPERANDS THEN ReadErr
                                   ELSE LET destinations ==
                                                ReadDestinations(num_destinations.rest,
                                                                 num_destinations.value)
                                        IN  IF ~destinations.ok THEN ReadErr
                                            ELSE ReadOk(NewCall(operator.value, operands.value,
                                                                destinations.value),
                                                        destinations.rest)

\* The bytes of the operands and of the destinations of a call.
OperandBytes(call) ==
    Concat([k \in 1..Len(call.operands) |-> OperandWrite(call.operands[k])])

DestinationBytes(call) ==
    Concat([k \in 1..Len(call.destinations) |-> RegisterWrite(call.destinations[k])])

\* Call::write_le: both counts are checked before the first byte is written.
CallWriteLe_CheckLate(call) ==
    IF Len(call.operands) > MAX_OPERANDS THEN [ok |-> FALSE, bytes |-> <<>>]
    ELSE IF Len(call.destinations) > MAX_OPERANDS
    THEN [ok |-> FALSE,
          bytes |-> CallOperatorWrite(call.operator)
                    \o <<AsU8(Len(call.operands))>> \o OperandBytes(call)]
    ELSE [ok |-> TRUE,
          bytes |-> CallOperatorWrite(call.operator)
                    \o <<AsU8(Len(call.operands))>> \o OperandBytes(call)
                    \o <<AsU8(Len(call.destinations))>> \o DestinationBytes(call)]

CallWriteLe_OneCount(call) ==
    IF Len(call.operands) > MAX_OPERANDS THEN [ok |-> FALSE, bytes |-> <<>>]
    ELSE IF Len(call.destinations) > MAX_OPERANDS THEN [ok |-> FALSE, bytes |-> <<>>]
    ELSE [ok |-> TRUE,
          bytes |-> CallOperatorWrite(call.operator)
                    \o <<AsU8(Len(call.operands))>> \o OperandBytes(call)
                    \o DestinationBytes(call)]

CallWriteLe(call) ==
    IF Len(call.operands) > MAX_OPERANDS THEN [ok |-> FALSE, bytes |-> <<>>]
    ELSE IF Len(call.destinations) > MAX_OPERANDS THEN [ok |-> FALSE, bytes |-> <<>>]
    ELSE [ok |-> TRUE,
          bytes |-> CallOperatorWrite(call.operator)
                    \o <<AsU8(Len(call.operands))>> \o OperandBytes(call)
                    \o <<AsU8(Len(call.destinations))>> \o DestinationBytes(call)]

\* The text of a call is a string of tokens, the whitespace between them
\* left out: the opcode, 'into', an operator, a register, a literal.
TokenOpcode == [kind |-> "opcode"]
TokenInto == [kind |-> "into"]
TokenOperator(operator) == [kind |-> "operator", value |-> operator]
TokenRegister(reg) == [kind |-> "register", value |-> reg]
TokenLiteral(v) == [kind |-> "literal", value |-> [literal |-> v]]

\* Display of an operand and of a destination.
OperandToken(operand) ==
    IF operand.variant = "Literal" THEN TokenLiteral(operand.literal)
    ELSE TokenRegister(operand.register)

\* Operand::parse and Register::parse on one token.
IsOperandToken(t) == t.kind \in {"literal", "register"}
IsRegisterToken(t) == t.kind = "register"

ParseOperandToken(t) ==
    IF t.kind = "literal" THEN OperandLiteral(t.value.literal) ELSE OperandRegister(t.value)

\* many0: the length of the longest prefix of text whose tokens are of a kind.
RECURSIVE Many0(_, _)
Many0(text, kinds) ==
    IF Len(text) = 0 THEN 0
    ELSE IF Head(text).kind \in kinds THEN 1 + Many0(Tail(text), kinds)
    ELSE 0

\* The tokens of text from position m on.
Drop(text, m) == SubSeq(text, m + 1, Len(text))

\* Display for Call: an error above the bound; 'into' only before a destination.
CallDisplay_AlwaysInto(call) ==
    IF Len(call.operands) > MAX_OPERANDS THEN [ok |-> FALSE, text |-> <<>>]
    ELSE IF Len(call.destinations) > MAX_OPERANDS THEN [ok |-> FALSE, text |-> <<>>]
    ELSE [ok |-> TRUE,
          text |-> <<TokenOpcode, TokenOperator(call.operator)>>
                   \o [k \in 1..Len(call.operands) |-> OperandToken(call.operands[k])]
                   \o <<TokenInto>>
                   \o [k \in 1..Len(call.destinations) |->
                          TokenRegister(call.destinations[k])]]

CallDisplay(call) ==
    IF Len(call.operands) > MAX_OPERANDS THEN [ok |-> FALSE, text |-> <<>>]
    ELSE IF Len(call.destinations) > MAX_OPERANDS THEN [ok |-> FALSE, text |-> <<>>]
    ELSE [ok |-> TRUE,
          text |-> <<TokenOpcode, TokenOperator(call.operator)>>
                   \o [k \in 1..Len(call.operands) |-> OperandToken(call.operands[k])]
                   \o (IF Len(call.destinations) = 0 THEN <<>>
                       ELSE <<TokenInto>>
                            \o [k \in 1..Len(call.destinations) |->
                                   TokenRegister(call.destinations[k])])]

\* Call::parse: the opcode, the operator, the operands, and after an
\* optional 'into' the destinations; more of either than the bound is an error.
CallParse_IntoNeedsRegister(text) ==
    IF Len(text) < 2 THEN ReadErr
    ELSE IF text[1].kind # "opcode" \/ text[2].kind # "operator" THEN ReadErr
    ELSE LET after_operator == Drop(text, 2)
             n == Many0(after_operator, {"literal", "register"})
             operands == [k \in 1..n |-> ParseOperandToken(after_operator[k])]
             after_operands == Drop(after_operator, n)
         IN  IF n > MAX_OPERANDS THEN ReadErr
             ELSE IF Len(after_operands) = 0 \/ Head(after_operands).kind # "into"
             THEN ReadOk(NewCall(text[2].value, operands, <<>>), after_operands)
             ELSE LET after_into == Tail(after_operands)
                      m == Many0(after_into, {"register"})
                      destinations == [k \in 1..m |-> after_into[k].value]
                  IN  IF m > MAX_OPERANDS \/ m = 0 THEN ReadErr
                      ELSE ReadOk(NewCall(text[2].value, operands, destinations),
                                  Drop(after_into, m))

CallParse_Unbounded(text) ==
    IF Len(text) < 2 THEN ReadErr
    ELSE IF text[1].kind # "opcode" \/ text[2].kind # "operator" THEN ReadErr
    ELSE LET after_operator == Drop(text, 2)
             n == Many0(after_operator, {"literal", "register"})
             operands == [k \in 1..n |-> ParseOperandToken(after_operator[k])]
             after_operands == Drop(after_operator, n)
         IN  IF Len(after_operands) = 0 \/ Head(after_operands).kind # "into"
             THEN ReadOk(NewCall(text[2].value, operands, <<>>), after_operands)
             ELSE LET after_into == Tail(after_operands)
                      m == Many0(after_into, {"register"})
                      destinations == [k \in 1..m |-> after_into[k].value]
                  IN  ReadOk(NewCall(text[2].value, operands, destinations),
                             Drop(after_into, m))

CallParse(text) ==
    IF Len(text) < 2 THEN ReadErr
    ELSE IF text[1].kind # "opcode" \/ text[2].kind # "operator" THEN ReadErr
    ELSE LET after_operator == Drop(text, 2)
             n == Many0(after_operator, {"literal", "register"})
             operands == [k \in 1..n |-> ParseOperandToken(after_operator[k])]
             after_operands == Drop(after_operator, n)
         IN  IF n > MAX_OPERANDS THEN ReadErr
             ELSE IF Len(after_operands) = 0 \/ Head(after_operands).kind # "into"
             THEN ReadOk(NewCall(text[2].value, operands, <<>>), after_operands)
             ELSE LET after_into == Tail(after_operands)
                      m == Many0(after_into, {"register"})
                      destinations == [k \in 1..m |-> after_into[k].value]
                  IN  IF m > MAX_OPERANDS THEN ReadErr
                      ELSE ReadOk(NewCall(text[2].value, operands, destinations),
                                  Drop(after_into, m))

\* FromStr for Call: the whole string has to be parsed.
CallFromStr(text) ==
    LET parsed == CallParse(text)
    IN  IF parsed.ok /\ Len(parsed.rest) = 0 THEN parsed ELSE ReadErr

-----------------------------------------------------------------------------
(* The state machine of the call instruction: a call is written and read   *)
(* back, a buffer is read, a call is displayed and parsed back, a string   *)
(* is parsed and displayed back.                                           *)

\* The variables of a pow_wrapped run.
powVars == <<pc, signed, a, b, result, i, trace, scope, metrics, inferred, discarded>>

\* No call, where an operation has none to give.
NoCall == [variant |-> "none"]

\* The calls that are written and displayed: up to one operand and one
\* destination more than the bound.
CallOperators == {OperatorResource(0), OperatorResource(1), OperatorLocator(0, 1)}
CallOperands ==
    {OperandLiteral(MAX_OPERANDS), OperandRegister(RegisterLocator(0)),
     OperandRegister(RegisterMember(0, 1))}
CallDestinations == {RegisterLocator(0), RegisterLocator(1)}

Calls ==
    {NewCall(operator, operands, destinations) :
        operator \in CallOperators,
        operands \in SeqUpTo(CallOperands, MAX_OPERANDS + 1),
        destinations \in SeqUpTo(CallDestinations, MAX_OPERANDS + 1)}

\* The buffers that are read without having been written.
Buffers == SeqUpTo(Bytes, MaxBufferLen)

\* The strings that are parsed without having been displayed.
Tokens ==
    {TokenOpcode, TokenInto, TokenOperator(OperatorResource(0)),
     TokenRegister(RegisterLocator(0)), TokenLiteral(1)}
Texts == SeqUpTo(Tokens, MaxTokens)

\* call.write_le(&mut bytes)
CallWrite ==
    /\ callIO.op = "none"
    /\ \E call \in Calls :
          LET written == CallWriteLe(call)
          IN  callIO' = [op |-> "write_le", from |-> "call", call |-> call,
                         ok |-> written.ok, bytes |-> written.bytes]
    /\ UNCHANGED <<powVars, isRegs, history>>

\* Call::read_le(&bytes[..]) of the bytes write_le gave.
CallRead ==
    /\ callIO.op = "write_le"
    /\ callIO.ok
    /\ LET read == CallReadLe(callIO.bytes)
       IN  callIO' = [op |-> "read_le", from |-> "written", call |-> callIO.call,
                      bytes |-> callIO.bytes, ok |-> read.ok,
                      out |-> IF read.ok THEN read.value ELSE NoCall]
    /\ UNCHANGED <<powVars, isRegs, history>>

\* Call::read_le of any buffer.
CallReadBuffer ==
    /\ callIO.op = "none"
    /\ \E buf \in Buffers :
          LET read == CallReadLe(buf)
          IN  callIO' = [op |-> "read_le", from |-> "buffer", call |-> NoCall,
                         bytes |-> buf, ok |-> read.ok,
                         out |-> IF read.ok THEN read.value ELSE NoCall]
    /\ UNCHANGED <<powVars, isRegs, history>>

\* write!(f, "{call}")
CallToString ==
    /\ callIO.op = "none"
    /\ \E call \in Calls :
          LET shown == CallDisplay(call)
          IN  callIO' = [op |-> "to_string", from |-> "call", call |-> call,
                         source |-> <<>>, ok |-> shown.ok, text |-> shown.text]
    /\ UNCHANGED <<powVars, isRegs, history>>

\* Call::from_str of the string Display gave.
CallFromString ==
    /\ callIO.op = "to_string"
    /\ callIO.from = "call"
    /\ callIO.ok
    /\ LET parsed == CallFromStr(callIO.text)
       IN  callIO' = [op |-> "from_str", from |-> "displayed", call |-> callIO.call,
                      text |-> callIO.text, ok |-> parsed.ok,
                      out |-> IF parsed.ok THEN parsed.value ELSE NoCall]
    /\ UNCHANGED <<powVars, isRegs, history>>

\* Call::from_str of any string.
CallFromText ==
    /\ callIO.op = "none"
    /\ \E text \in Texts :
          LET parsed == CallFromStr(text)
          IN  callIO' = [op |-> "from_str", from |-> "text", call |-> NoCall,
                         text |-> text, ok |-> parsed.ok,
                         out |-> IF parsed.ok THEN parsed.value ELSE NoCall]
    /\ UNCHANGED <<powVars, isRegs, history>>

\* to_string of the call from_str gave.
CallToStringParsed ==
    /\ callIO.op = "from_str"
    /\ callIO.from = "text"
    /\ callIO.ok
    /\ LET shown == CallDisplay(callIO.out)
       IN  callIO' = [op |-> "to_string", from |-> "parsed", call |-> callIO.out,
                      source |-> callIO.text, ok |-> shown.ok, text |-> shown.text]
    /\ UNCHANGED <<powVars, isRegs, history>>

\* The next test case.
CallNext ==
    /\ callIO.op # "none"
    /\ callIO' = NoCallIO
    /\ UNCHANGED <<powVars, isRegs, history>>

NextCall ==
    \/ CallWrite
    \/ CallRead
    \/ CallReadBuffer
    \/ CallToString
    \/ CallFromString
    \/ CallFromText
    \/ CallToStringParsed
    \/ CallNext

SpecCall == Init /\ [][NextCall]_vars

-----------------------------------------------------------------------------
(* Properties of the call instruction.                                     *)

\* A call whose operands and destinations are within the bound.
WithinBounds(call) ==
    /\ Len(call.operands) <= MAX_OPERANDS
    /\ Len(call.destinations) <= MAX_OPERANDS

\* The layout of a call in bytes, whatever its counts.
CallLayout(call) ==
    CallOperatorWrite(call.operator)
    \o <<Len(call.operands)>> \o OperandBytes(call)
    \o <<Len(call.destinations)>> \o DestinationBytes(call)

\* The canonical string of a call, whatever its counts.
CallText(call) ==
    <<TokenOpcode, TokenOperator(call.operator)>>
    \o [k \in 1..Len(call.operands) |-> OperandToken(call.operands[k])]
    \o (IF Len(call.destinations) = 0 THEN <<>>
        ELSE <<TokenInto>>
             \o [k \in 1..Len(call.destinations) |-> TokenRegister(call.destinations[k])])

\* A well-formed string in canonical form: the opcode, the operator, at most
\* MAX_OPERANDS operands, and 'into' only before one to MAX_OPERANDS registers.
Canonical(text) ==
    /\ Len(text) >= 2
    /\ text[1] = TokenOpcode
    /\ text[2].kind = "operator"
    /\ \E k \in 2..Len(text) :
          /\ k - 2 <= MAX_OPERANDS
          /\ \A j \in 3..k : IsOperandToken(text[j])
          /\ \/ k = Len(text)
             \/ /\ text[k + 1] = TokenInto
                /\ k + 2 <= Len(text)
                /\ Len(text) - (k + 1) <= MAX_OPERANDS
                /\ \A j \in (k + 2)..Len(text) : IsRegisterToken(text[j])

\* C15: for a call within the bound write_le succeeds and lays out the
\* operator, one count byte, the operands, one count byte, the destinations;
\* read_le of these bytes succeeds and returns a call equal to the written one.
C15_ByteRoundTrip ==
    /\ (callIO.op = "write_le" /\ WithinBounds(callIO.call)) =>
          /\ callIO.ok
          /\ callIO.bytes = CallLayout(callIO.call)
    /\ (callIO.op = "read_le" /\ callIO.from = "written") =>
          /\ callIO.ok
          /\ callIO.out = callIO.call

C15_Witness ==
    /\ callIO.op = "read_le"
    /\ callIO.from = "written"
    /\ Len(callIO.call.operands) = MAX_OPERANDS
    /\ Len(callIO.call.destinations) = MAX_OPERANDS
    /\ callIO.call.operator.variant = "Locator"
    /\ callIO.out = callIO.call

\* C16: from_str of a canonical string succeeds and to_string of the parsed
\* call is that string; from_str of the Display of a call within the bound
\* succeeds and returns a call equal to the displayed one.
C16_TextRoundTrip ==
    /\ (callIO.op = "from_str" /\ Canonical(callIO.text)) => callIO.ok
    /\ (callIO.op = "to_string" /\ callIO.from = "parsed" /\ Canonical(callIO.source)) =>
          /\ callIO.ok
          /\ callIO.text = callIO.source
    /\ (callIO.op = "to_string" /\ callIO.from = "call" /\ WithinBounds(callIO.call)) =>
          callIO.ok
    /\ (callIO.op = "from_str" /\ callIO.from = "displayed") =>
          /\ callIO.ok
          /\ callIO.out = callIO.call

C16_Witness ==
    /\ callIO.op = "to_string"
    /\ callIO.from = "parsed"
    /\ Canonical(callIO.source)
    /\ Len(callIO.call.operands) = 1
    /\ Len(callIO.call.destinations) = MAX_OPERANDS
    /\ callIO.text = callIO.source

\* C17: the first byte read is the discriminant of the operator: 0 decodes a
\* Locator, 1 a Resource, any other byte is an error of CallOperator::read_le
\* that Call::read_le returns, so that no such buffer decodes.
C17_Discriminant ==
    callIO.op = "read_le" =>
        /\ (Len(callIO.bytes) = 0 \/ callIO.bytes[1] \notin {0, 1}) =>
              /\ ~CallOperatorRead(callIO.bytes).ok
              /\ ~callIO.ok
        /\ callIO.ok =>
              /\ callIO.bytes[1] = 0 => callIO.out.operator.variant = "Locator"
              /\ callIO.bytes[1] = 1 => callIO.out.operator.variant = "Resource"

C17_Witness ==
    /\ callIO.op = "read_le"
    /\ callIO.from = "buffer"
    /\ Len(callIO.bytes) > 0
    /\ callIO.bytes[1] \notin {0, 1}
    /\ CallReadLe(<<1>> \o Tail(callIO.bytes)).ok
    /\ ~callIO.ok

\* C18: write_le and Display succeed exactly on the calls within the bound,
\* and read_le and parse accept the bytes and the string of a call exactly
\* when it is within the bound: one operand or one destination above
\* MAX_OPERANDS fails, MAX_OPERANDS of each is accepted.
C18_BoundsEverywhere ==
    /\ callIO.op = "write_le" =>
          /\ callIO.ok <=> WithinBounds(callIO.call)
          /\ CallReadLe(CallLayout(callIO.call)).ok <=> WithinBounds(callIO.call)
    /\ (callIO.op = "to_string" /\ callIO.from = "call") =>
          /\ callIO.ok <=> WithinBounds(callIO.call)
          /\ CallParse(CallText(callIO.call)).ok <=> WithinBounds(callIO.call)
    /\ (callIO.op \in {"read_le", "from_str"} /\ callIO.ok) => WithinBounds(callIO.out)

C18_Witness ==
    /\ callIO.op = "to_string"
    /\ callIO.from = "call"
    /\ Len(callIO.call.operands) = MAX_OPERANDS
    /\ Len(callIO.call.destinations) = MAX_OPERANDS + 1
    /\ ~callIO.ok
    /\ ~CallParse(CallText(callIO.call)).ok

-----------------------------------------------------------------------------
(* The 'is' instruction: is.eq and is.neq on the console registers and on  *)
(* the circuit registers of a stack.                                       *)

\* Largest literal stored in a register.
MaxLiteral == 1

\* The registers of the function: r0 and r1 are the inputs, r2 is the
\* destination, r3 is never assigned.
RegisterIndices == {0, 1, 2, 3}

LiteralTypes == {"field", "u8"}
IsVariants == {0, 1, 2}

\* A register of the console and of the circuit that holds no value.
Unassigned == [assigned |-> FALSE, type |-> "none", value |-> 0]
UnassignedCircuit == [assigned |-> FALSE, type |-> "none", value |-> 0, mode |-> "Constant"]

\* Value::Plaintext(Plaintext::from(literal)) and circuit::Value::new(mode, value).
ConsoleValue(type, v) == [assigned |-> TRUE, type |-> type, value |-> v]
CircuitValue(mode, type, v) == [assigned |-> TRUE, type |-> type, value |-> v, mode |-> mode]

\* Literal::Boolean(Boolean::new(bit)), as a console value.
ConsoleBoolean(bit) == ConsoleValue("boolean", IF bit THEN 1 ELSE 0)

\* registers.load and registers.load_circuit: the value of an assigned register.
Load(registers, r) ==
    IF registers[r].assigned THEN [ok |-> TRUE, value |-> registers[r]] ELSE [ok |-> FALSE]

\* registers.store and registers.store_circuit.
Store(registers, r, value) == [registers EXCEPT ![r] = value]

\* Equality of two values: their types and their contents.
SameValue(x, y) == x.type = y.type /\ x.value = y.value

\* The mode of the output of a gadget on two inputs.
OutputModeOf(x, y) == IF x.mode = "Constant" /\ y.mode = "Constant" THEN "Constant" ELSE "Private"

\* input_a.is_equal(&input_b) and input_a.is_not_equal(&input_b): the output
\* bit and the constraint that ties it to the inputs, none among constants.
IsEqualGadget(x, y, negated) ==
    LET bit == IF negated THEN ~SameValue(x, y) ELSE SameValue(x, y)
        out == CircuitValue(OutputModeOf(x, y), "boolean", IF bit THEN 1 ELSE 0)
    IN  [out |-> out,
         constraints |-> IF OutputModeOf(x, y) = "Constant" THEN <<>>
                         ELSE <<[a |-> x, b |-> y, negated |-> negated, out |-> out.value]>>]

\* Circuit::is_satisfied(): every constraint holds of the values assigned.
IsSatisfied(constraints) ==
    \A k \in 1..Len(constraints) :
        LET c == constraints[k]
        IN  c.out = (IF SameValue(c.a, c.b) # c.negated THEN 1 ELSE 0)

\* Stack::evaluate_is: the console registers after the call, or an error.
evaluate_is_StoreBeforeMatch(variant, operands, destinations, registers) ==
    IF Len(operands) # 2 THEN [ok |-> FALSE, registers |-> registers]
    ELSE LET input_a == Load(registers, operands[1])
             input_b == Load(registers, operands[2])
             equal == ConsoleBoolean(SameValue(input_a.value, input_b.value))
             differ == ConsoleBoolean(~SameValue(input_a.value, input_b.value))
         IN  IF ~input_a.ok \/ ~input_b.ok THEN [ok |-> FALSE, registers |-> registers]
             ELSE IF variant = 0
             THEN [ok |-> TRUE, registers |-> Store(registers, destinations[1], equal)]
             ELSE IF variant = 1
             THEN [ok |-> TRUE, registers |-> Store(registers, destinations[1], differ)]
             ELSE [ok |-> FALSE, registers |-> Store(registers, destinations[1], differ)]

evaluate_is_Swapped(variant, operands, destinations, registers) ==
    IF Len(operands) # 2 THEN [ok |-> FALSE, registers |-> registers]
    ELSE LET input_a == Load(registers, operands[1])
             input_b == Load(registers, operands[2])
         IN  IF ~input_a.ok \/ ~input_b.ok THEN [ok |-> FALSE, registers |-> registers]
             ELSE IF variant = 0
             THEN [ok |-> TRUE,
                   registers |-> Store(registers, destinations[1],
                                       ConsoleBoolean(~SameValue(input_a.value, input_b.value)))]
             ELSE IF variant = 1
             THEN [ok |-> TRUE,
                   registers |-> Store(registers, destinations[1],
                                       ConsoleBoolean(SameValue(input_a.value, input_b.value)))]
             ELSE [ok |-> FALSE, registers |-> registers]

evaluate_is(variant, operands, destinations, registers) ==
    IF Len(operands) # 2 THEN [ok |-> FALSE, registers |-> registers]
    ELSE LET input_a == Load(registers, operands[1])
             input_b == Load(registers, operands[2])
         IN  IF ~input_a.ok \/ ~input_b.ok THEN [ok |-> FALSE, registers |-> registers]
             ELSE IF variant = 0
             THEN [ok |-> TRUE,
                   registers |-> Store(registers, destinations[1],
                                       ConsoleBoolean(SameValue(input_a.value, input_b.value)))]
             ELSE IF variant = 1
             THEN [ok |-> TRUE,
                   registers |-> Store(registers, destinations[1],
                                       ConsoleBoolean(~SameValue(input_a.value, input_b.value)))]
             ELSE [ok |-> FALSE, registers |-> registers]

\* Stack::execute_is: the circuit registers and the constraints after the
\* call, or an error.
execute_is_AlwaysEqual(variant, operands, destinations, registers, constraints) ==
    IF Len(operands) # 2
    THEN [ok |-> FALSE, registers |-> registers, constraints |-> constraints]
    ELSE LET input_a == Load(registers, operands[1])
             input_b == Load(registers, operands[2])
         IN  IF ~input_a.ok \/ ~input_b.ok
             THEN [ok |-> FALSE, registers |-> registers, constraints |-> constraints]
             ELSE IF variant \in {0, 1}
             THEN LET output == IsEqualGadget(input_a.value, input_b.value, FALSE)
                  IN  [ok |-> TRUE,
                       registers |-> Store(registers, destinations[1], output.out),
                       constraints |-> constraints \o output.constraints]
             ELSE [ok |-> FALSE, registers |-> registers, constraints |-> constraints]

execute_is(variant, operands, destinations, registers, constraints) ==
    IF Len(operands) # 2
    THEN [ok |-> FALSE, registers |-> registers, constraints |-> constraints]
    ELSE LET input_a == Load(registers, operands[1])
             input_b == Load(registers, operands[2])
         IN  IF ~input_a.ok \/ ~input_b.ok
             THEN [ok |-> FALSE, registers |-> registers, constraints |-> constraints]
             ELSE IF variant \in {0, 1}
             THEN LET output == IsEqualGadget(input_a.value, input_b.value, variant = 1)
                  IN  [ok |-> TRUE,
                       registers |-> Store(registers, destinations[1], output.out),
                       constraints |-> constraints \o output.constraints]
             ELSE [ok |-> FALSE, registers |-> registers, constraints |-> constraints]

\* The operand lists of an instruction: one to three registers.
IsOperandLists == SeqUpTo(RegisterIndices \ {2}, 3) \ {<<>>}

\* sample_registers: r0 and r1 hold the two literals, in both register files.
SampleConsole(type, va, vb) ==
    [r \in RegisterIndices |->
        IF r = 0 THEN ConsoleValue(type, va)
        ELSE IF r = 1 THEN ConsoleValue(type, vb)
        ELSE Unassigned]

SampleCircuit(type, va, vb, mode_a, mode_b) ==
    [r \in RegisterIndices |->
        IF r = 0 THEN CircuitValue(mode_a, type, va)
        ELSE IF r = 1 THEN CircuitValue(mode_b, type, vb)
        ELSE UnassignedCircuit]

\* sample_stack and sample_registers of check_is.
IsSample ==
    /\ isRegs.op = "none"
    /\ \E variant \in IsVariants, type \in LiteralTypes,
          va \in 0..MaxLiteral, vb \in 0..MaxLiteral,
          mode_a \in Mode, mode_b \in Mode, operands \in IsOperandLists :
          isRegs' = [op |-> "sampled", variant |-> variant, operands |-> operands,
                     destinations |-> <<2>>,
                     console |-> SampleConsole(type, va, vb),
                     circuit |-> SampleCircuit(type, va, vb, mode_a, mode_b),
                     before |-> SampleConsole(type, va, vb),
                     before_circuit |-> SampleCircuit(type, va, vb, mode_a, mode_b),
                     constraints |-> <<>>,
                     evaluated |-> FALSE, executed |-> FALSE]
    /\ UNCHANGED <<powVars, callIO, history>>

\* operation.evaluate(&stack, &mut registers)
IsEvaluate ==
    /\ isRegs.op = "sampled"
    /\ LET out == evaluate_is(isRegs.variant, isRegs.operands, isRegs.destinations,
                              isRegs.console)
       IN  isRegs' = [isRegs EXCEPT !.op = "evaluated", !.console = out.registers,
                                    !.evaluated = out.ok]
    /\ UNCHANGED <<powVars, callIO, history>>

\* operation.execute::<A>(&stack, &mut registers)
IsExecute ==
    /\ isRegs.op = "evaluated"
    /\ LET out == execute_is(isRegs.variant, isRegs.operands, isRegs.destinations,
                             isRegs.circuit, isRegs.constraints)
       IN  isRegs' = [isRegs EXCEPT !.op = "executed", !.circuit = out.registers,
                                    !.constraints = out.constraints,
                                    !.executed = out.ok]
    /\ UNCHANGED <<powVars, callIO, history>>

\* <CurrentAleo as circuit::Environment>::reset(), and the next case.
IsReset ==
    /\ isRegs.op = "executed"
    /\ isRegs' = NoIsRegs
    /\ UNCHANGED <<powVars, callIO, history>>

NextIs ==
    \/ IsSample
    \/ IsEvaluate
    \/ IsExecute
    \/ IsReset

SpecIs == Init /\ [][NextIs]_vars

-----------------------------------------------------------------------------
(* Properties of the 'is' instruction.                                     *)

\* The two inputs of the instruction, as the sample stored them.
IsInputA == isRegs.before[isRegs.operands[1]]
IsInputB == isRegs.before[isRegs.operands[2]]

\* The destination register of the console and of the circuit.
ConsoleOutput == isRegs.console[isRegs.destinations[1]]
CircuitOutput == isRegs.circuit[isRegs.destinations[1]]

\* C19: evaluate_is on exactly two operands stores one Boolean in the first
\* destination register and nothing else: for variant 0 it is true exactly
\* when the inputs are equal, for variant 1 exactly when they differ, so a
\* value against itself gives true for is.eq and false for is.neq.
C19_EvaluateIs ==
    (isRegs.op = "evaluated" /\ isRegs.evaluated) =>
        /\ Len(isRegs.operands) = 2
        /\ ConsoleOutput.assigned
        /\ ConsoleOutput.type = "boolean"
        /\ isRegs.variant = 0 => (ConsoleOutput.value = 1 <=> IsInputA = IsInputB)
        /\ isRegs.variant = 1 => (ConsoleOutput.value = 1 <=> IsInputA # IsInputB)
        /\ isRegs.operands[1] = isRegs.operands[2] =>
              ConsoleOutput.value = (IF isRegs.variant = 0 THEN 1 ELSE 0)
        /\ \A r \in RegisterIndices \ {isRegs.destinations[1]} :
              isRegs.console[r] = isRegs.before[r]

C19_Witness ==
    /\ isRegs.op = "evaluated"
    /\ isRegs.evaluated
    /\ isRegs.variant = 1
    /\ isRegs.operands = <<0, 1>>
    /\ IsInputA # IsInputB
    /\ ConsoleOutput.value = 1

-----------------------------------------------------------------------------
(* The output types of the 'is' instruction, as the stack computes them    *)
(* when a program is added.                                                *)

\* The register types of the inputs of an instruction.
RegisterTypes == LiteralTypes \cup {"boolean"}

\* RegisterType::Plaintext(PlaintextType::Literal(LiteralType::Boolean))
BooleanType == "boolean"

\* Stack::is_output_types: the output types, or an error.
is_output_types_AnyTypes(variant, operands, input_types) ==
    IF Len(input_types) # 2 THEN [ok |-> FALSE, types |-> <<>>]
    ELSE IF Len(operands) # 2 THEN [ok |-> FALSE, types |-> <<>>]
    ELSE IF variant \in {0, 1} THEN [ok |-> TRUE, types |-> <<BooleanType>>]
    ELSE [ok |-> FALSE, types |-> <<>>]

is_output_types(variant, operands, input_types) ==
    IF Len(input_types) # 2 THEN [ok |-> FALSE, types |-> <<>>]
    ELSE IF input_types[1] # input_types[2] THEN [ok |-> FALSE, types |-> <<>>]
    ELSE IF Len(operands) # 2 THEN [ok |-> FALSE, types |-> <<>>]
    ELSE IF variant \in {0, 1} THEN [ok |-> TRUE, types |-> <<BooleanType>>]
    ELSE [ok |-> FALSE, types |-> <<>>]

\* The lists of input types handed to is_output_types: none to three.
InputTypeLists == SeqUpTo(RegisterTypes, 3)

\* sample_stack: the stack asks for the output types of the instruction.
IsOutputTypes ==
    /\ isRegs.op = "none"
    /\ \E variant \in IsVariants, operands \in IsOperandLists, input_types \in InputTypeLists :
          LET out == is_output_types(variant, operands, input_types)
          IN  isRegs' = [op |-> "typed", variant |-> variant, operands |-> operands,
                         input_types |-> input_types, ok |-> out.ok, types |-> out.types]
    /\ UNCHANGED <<powVars, callIO, history>>

\* The next program.
IsTypesNext ==
    /\ isRegs.op = "typed"
    /\ isRegs' = NoIsRegs
    /\ UNCHANGED <<powVars, callIO, history>>

NextIsTypes ==
    \/ IsOutputTypes
    \/ IsTypesNext

SpecIsTypes == Init /\ [][NextIsTypes]_vars

\* C21: is_output_types returns the single type Boolean exactly when it gets
\* two equal input types, the instruction has two operands and the variant
\* is 0 or 1; in every other case it returns an error, so two operands of
\* different types are rejected.
C21_OutputTypes ==
    isRegs.op = "typed" =>
        /\ isRegs.ok <=>
              /\ Len(isRegs.input_types) = 2
              /\ Len(isRegs.operands) = 2
              /\ isRegs.variant \in {0, 1}
              /\ \A j, k \in 1..Len(isRegs.input_types) :
                    isRegs.input_types[j] = isRegs.input_types[k]
        /\ isRegs.ok => isRegs.types = <<"boolean">>
        /\ ~isRegs.ok => isRegs.types = <<>>

C21_Witness ==
    /\ isRegs.op = "typed"
    /\ isRegs.variant = 0
    /\ Len(isRegs.operands) = 2
    /\ isRegs.input_types = <<"field", "u8">>
    /\ ~isRegs.ok

-----------------------------------------------------------------------------
(* Properties of the ladder, of the additive term and of the arms of       *)
(* output_mode.                                                            *)

\* The number formed by the exponent bits the loop has processed: all but
\* the i least significant ones.
ProcessedExponent == Exponent \div Pow2(i)

\* C22: on the general path, after the k most significant exponent bits the
\* running result is the base raised to the number those k bits form, modulo
\* 2^I::BITS; it is 1 before the first iteration and while only zero bits
\* have been processed.
C22_LadderInvariant ==
    (pc \in {"loop", "done"} /\ ~BothConstant) =>
        /\ i \in 0..MBITS
        /\ EjectValue(result, signed) = PowMod(Base, ProcessedExponent, IBITS, signed)
        /\ ProcessedExponent = 0 => EjectValue(result, signed) = 1

C22_Witness ==
    /\ pc = "loop"
    /\ ~signed
    /\ i = 1
    /\ Base = 3
    /\ ProcessedExponent = 3
    /\ EjectValue(result, signed) = 27

\* The cost of the selections of a ladder: one selection of an Integer of
\* ibits wires under a non-Constant condition for each of the mbits bits.
SelectCost(ibits, mbits) ==
    LET one == TernaryTally([mode |-> "Private"], ibits)
    IN  <<mbits * one[1], mbits * one[2], mbits * one[3], mbits * one[4]>>

\* The selections of a trace and what they cost at a width.
SelectCostOf(t, bits) ==
    LET selections == {k \in 1..Len(t) : t[k].op = "ternary" /\ t[k].lhs # "Constant"}
    IN  SelectCost(bits, Cardinality(selections))

\* C23: with a non-Constant exponent the additive term of the Count, which is
\* the Count of the case when one mul_wrapped costs nothing, is the cost of
\* all the selections of the ladder, M::BITS selections of I::BITS wires.
C23_AdditiveTermIsSelectCost ==
    /\ (/\ pc = "counted"
        /\ metrics.case[2] # "Constant"
        /\ metrics.mul_count.n = ZeroTally)
          => metrics.result.n = SelectCost(metrics.ibits, metrics.mbits)
    /\ (Returned /\ b.mode # "Constant")
          => SelectCostOf(trace, IBITS) = SelectCost(IBITS, MBITS)

\* Supporting C23: the additive term is the cost of one selection, with
\* 2 * I::BITS constants, whatever the number of exponent bits.
C23_AdditiveTermIsOneSelection ==
    (/\ pc = "counted"
     /\ metrics.case[2] # "Constant"
     /\ metrics.mul_count.n = ZeroTally)
        => /\ metrics.result.n = AddTally(<<2 * metrics.ibits, 0, 0, 0>>,
                                          SelectCost(metrics.ibits, 1))
           /\ metrics.result.n # SelectCost(metrics.ibits, metrics.mbits)

\* The arm of the match of output_mode that a case takes.
output_mode_arm_InnerFirst(case) ==
    IF case[1] = "Constant"
    THEN (IF CircuitTypeMode(case[2]) = "Constant" THEN "inner Constant" ELSE "inner Private")
    ELSE IF CircuitTypeMode(case[2]) = "Constant"
    THEN (IF IsConstantVariant(case[2])
          THEN (IF EjectValue(case[2].value, FALSE) = 0 THEN "zero" ELSE "not zero")
          ELSE "halt")
    ELSE "any"

output_mode_arm(case) ==
    IF case[1] = "Constant" /\ CircuitTypeMode(case[2]) = "Constant" THEN "both Constant"
    ELSE IF case[1] = "Constant"
    THEN (IF CircuitTypeMode(case[2]) = "Constant" THEN "inner Constant" ELSE "inner Private")
    ELSE IF CircuitTypeMode(case[2]) = "Constant"
    THEN (IF IsConstantVariant(case[2])
          THEN (IF EjectValue(case[2].value, FALSE) = 0 THEN "zero" ELSE "not zero")
          ELSE "halt")
    ELSE "any"

\* C24: for every case made of a base mode and the CircuitType of an
\* exponent, output_mode returns a Mode: the arm that halts is not taken, a
\* CircuitType of mode Constant being the Constant with its value; and the
\* inner arm that gives Constant for a Constant base is not taken either.
C24_HaltUnreachable ==
    /\ pc # "halted"
    /\ pc = "inferred" =>
          /\ inferred.result \in Mode
          /\ output_mode_arm(inferred.case) \notin {"halt", "inner Constant"}
          /\ CircuitTypeMode(inferred.case[2]) = "Constant" => IsConstantVariant(inferred.case[2])

C24_Witness ==
    /\ pc = "inferred"
    /\ inferred.case[1] = "Constant"
    /\ CircuitTypeMode(inferred.case[2]) = "Constant"
    /\ output_mode_arm(inferred.case) = "both Constant"
    /\ inferred.result = "Constant"

-----------------------------------------------------------------------------
(* Properties of the parser and of the writer of the call instruction.     *)

\* The positions of 'into' in a string.
IntoPositions(text) == {j \in 1..Len(text) : text[j] = TokenInto}

\* A string without its last token.
Front(text) == SubSeq(text, 1, Len(text) - 1)

\* C25: the parsed Call has the operands and the destinations in the order
\* written; without 'into' the destinations are empty; with 'into' they are
\* the registers after it; and a string ending in 'into' parses to the Call
\* of the string without that 'into', which from_str returns when no other
\* 'into' comes before.
C25_ParseOrder ==
    (callIO.op = "from_str" /\ callIO.from = "text") =>
        /\ callIO.ok =>
              LET n == Len(callIO.out.operands)
                  m == Len(callIO.out.destinations)
              IN  /\ \A k \in 1..n : callIO.text[2 + k] = OperandToken(callIO.out.operands[k])
                  /\ IntoPositions(callIO.text) = {} =>
                        /\ m = 0
                        /\ Len(callIO.text) = 2 + n
                  /\ IntoPositions(callIO.text) # {} =>
                        /\ IntoPositions(callIO.text) = {3 + n}
                        /\ Len(callIO.text) = 3 + n + m
                        /\ \A k \in 1..m :
                              callIO.text[3 + n + k] = TokenRegister(callIO.out.destinations[k])
        /\ (Len(callIO.text) > 0 /\ callIO.text[Len(callIO.text)] = TokenInto) =>
              /\ CallParse(callIO.text).ok <=> CallParse(Front(callIO.text)).ok
              /\ CallParse(callIO.text).ok =>
                    CallParse(callIO.text).value = CallParse(Front(callIO.text)).value
              /\ (CallFromStr(Front(callIO.text)).ok /\ IntoPositions(Front(callIO.text)) = {}) =>
                    /\ callIO.ok
                    /\ callIO.out = CallFromStr(Front(callIO.text)).value

C25_Witness ==
    /\ callIO.op = "from_str"
    /\ callIO.from = "text"
    /\ callIO.ok
    /\ Len(callIO.text) = 4
    /\ callIO.text[4] = TokenInto
    /\ Len(callIO.out.operands) = 1
    /\ callIO.out.destinations = <<>>
    /\ CallFromStr(Front(callIO.text)).ok

\* C26: write_le of a call with more operands or more destinations than
\* MAX_OPERANDS returns the error with nothing written: the writer holds no
\* byte, not the beginning of an encoding.
C26_NothingWrittenOnError ==
    (callIO.op = "write_le" /\ ~WithinBounds(callIO.call)) =>
        /\ ~callIO.ok
        /\ callIO.bytes = <<>>

C26_Witness ==
    /\ callIO.op = "write_le"
    /\ Len(callIO.call.operands) = MAX_OPERANDS
    /\ Len(callIO.call.destinations) = MAX_OPERANDS + 1
    /\ ~callIO.ok
    /\ callIO.bytes = <<>>

-----------------------------------------------------------------------------
(* Errors of the 'is' instruction, and is.eq against is.neq.               *)

\* The instruction is one evaluate_is and execute_is return an error for:
\* not two operands, an operand that cannot be loaded, or another variant.
IsErroneous ==
    \/ Len(isRegs.operands) # 2
    \/ \E k \in 1..Len(isRegs.operands) : ~isRegs.before[isRegs.operands[k]].assigned
    \/ isRegs.variant \notin {0, 1}

OtherConsoleOutput ==
    evaluate_is(1 - isRegs.variant, isRegs.operands, isRegs.destinations,
                isRegs.before).registers[isRegs.destinations[1]]

OtherCircuitOutput ==
    execute_is(1 - isRegs.variant, isRegs.operands, isRegs.destinations,
               isRegs.before_circuit, <<>>).registers[isRegs.destinations[1]]

\* C28: on the same two inputs of one type the Boolean is.eq stores is the
\* negation of the Boolean is.neq stores, in the console registers and in
\* the circuit registers.
C28_Complementary ==
    /\ (isRegs.op \in {"evaluated", "executed"} /\ isRegs.evaluated) =>
          /\ OtherConsoleOutput.type = "boolean"
          /\ ConsoleOutput.value = 1 - OtherConsoleOutput.value
    /\ (isRegs.op = "executed" /\ isRegs.executed) =>
          /\ OtherCircuitOutput.type = "boolean"
          /\ CircuitOutput.value = 1 - OtherCircuitOutput.value

C28_Witness ==
    /\ isRegs.op = "executed"
    /\ isRegs.executed
    /\ isRegs.variant = 0
    /\ isRegs.operands = <<0, 1>>
    /\ IsInputA # IsInputB
    /\ ConsoleOutput.value = 0
    /\ OtherConsoleOutput.value = 1
    /\ CircuitOutput.value = 0
    /\ OtherCircuitOutput.value = 1

-----------------------------------------------------------------------------
(* The history directory of a VM.  A path is a sequence of components, a   *)
(* component a sequence of characters and words; the empty path is a root. *)

\* format!("{n}") of an unsigned number.
DigitChars == <<"0", "1", "2", "3", "4", "5", "6", "7", "8", "9">>

RECURSIVE Decimal(_)
Decimal(n) ==
    IF n < 10 THEN <<DigitChars[n + 1]>>
    ELSE Decimal(n \div 10) \o <<DigitChars[(n % 10) + 1]>>

\* StorageMode::Development(id), StorageMode::Production, StorageMode::Custom(path).
Development(id) == [kind |-> "Development", id |-> id, path |-> <<>>]
Production == [kind |-> "Production", id |-> 0, path |-> <<>>]
Custom(path) == [kind |-> "Custom", id |-> 0, path |-> path]

\* aleo_std::aleo_ledger_dir: under the storage of the Aleo directory in
\* production, in the working directory in development, the given path in
\* custom mode.
aleo_ledger_dir(network, storage_mode) ==
    IF storage_mode.kind = "Production"
    THEN <<<<"home">>, <<".aleo">>, <<"storage">>, <<"ledger", "-">> \o Decimal(network)>>
    ELSE IF storage_mode.kind = "Development"
    THEN <<<<"work">>,
           <<".", "ledger", "-">> \o Decimal(network) \o <<"-">> \o Decimal(storage_mode.id)>>
    ELSE storage_mode.path

\* PathBuf::pop: drops the last component; does nothing on a path without parent.
Pop(path) == IF Len(path) = 0 THEN path ELSE SubSeq(path, 1, Len(path) - 1)

\* The name of the history directory.
directory_name_NoId(network, storage_mode) ==
    IF storage_mode.kind = "Development"
    THEN <<".", "history", "-">> \o Decimal(network)
    ELSE <<"history", "-">> \o Decimal(network)

directory_name(network, storage_mode) ==
    IF storage_mode.kind = "Development"
    THEN <<".", "history", "-">> \o Decimal(network) \o <<"-">> \o Decimal(storage_mode.id)
    ELSE <<"history", "-">> \o Decimal(network)

\* history_directory_path: the ledger's path, one folder up, then the name.
history_directory_path(network, storage_mode) ==
    Pop(aleo_ledger_dir(network, storage_mode)) \o <<directory_name(network, storage_mode)>>

\* Display for MappingName.
MappingNames == {"bonded", "delegated", "unbonding"}

\* format!("block-{height}") and format!("block-{height}-{mapping}.json").
BlockPath(path, height) == path \o <<<<"block", "-">> \o Decimal(height)>>

EntryPath_NoMapping(path, height, mapping) ==
    BlockPath(path, height) \o <<<<"block", "-">> \o Decimal(height) \o <<".json">>>>

EntryPath(path, height, mapping) ==
    BlockPath(path, height)
    \o <<<<"block", "-">> \o Decimal(height) \o <<"-", mapping, ".json">>>>

\* serde_json::to_string_pretty: the text of the data, or an error for data
\* that does not serialize.
Unserializable == 0 - 1
ToStringPretty(data) ==
    IF data = Unserializable THEN [ok |-> FALSE, text |-> <<>>]
    ELSE [ok |-> TRUE, text |-> <<"{", Decimal(data)[1], "}">>]

\* The file at a path, if any.
FilesAt(files, path) == {f \in files : f.path = path}

\* std::fs::write: the file is created or its contents are replaced.
FsWrite(files, path, text) == (files \ FilesAt(files, path)) \cup {[path |-> path, text |-> text]}

\* The networks, the storage modes, the heights and the data of a run.
Networks == {1, 2, 11}
StorageModes ==
    {Development(2), Development(12), Production,
     Custom(<<>>), Custom(<<<<"data">>, <<"ledger">>>>), Custom(<<<<"ledger">>>>)}
Heights == {1, 11}
HistoryData == {Unserializable, 0, 1}

NoHistoryCall == [op |-> "none"]

\* History::new(network, storage_mode)
HistoryNew ==
    /\ history.op = "none"
    /\ \E network \in Networks, storage_mode \in {Development(2), Production} :
          history' = [op |-> "open",
                      path |-> history_directory_path(network, storage_mode),
                      files |-> {}, dirs |-> {}, latest |-> {}, call |-> NoHistoryCall]
    /\ UNCHANGED <<powVars, callIO, isRegs>>

\* history.store_mapping(height, mapping, &data)
StoreMapping ==
    /\ history.op = "open"
    /\ \E height \in Heights, mapping \in MappingNames, data \in HistoryData :
          LET block_path == BlockPath(history.path, height)
              entry_path == EntryPath(history.path, height, mapping)
              json == ToStringPretty(data)
              dirs == history.dirs \cup {block_path}
              call == [op |-> "store_mapping", height |-> height, mapping |-> mapping,
                       data |-> data, ok |-> json.ok, text |-> json.text,
                       files_before |-> history.files, dirs_before |-> history.dirs]
          IN  IF json.ok
              THEN history' =
                     [history EXCEPT
                        !.dirs = dirs,
                        !.files = FsWrite(history.files, entry_path, json.text),
                        !.latest = {l \in history.latest :
                                       l.height # height \/ l.mapping # mapping}
                                   \cup {[height |-> height, mapping |-> mapping,
                                          data |-> data]},
                        !.call = call]
              ELSE history' = [history EXCEPT !.dirs = dirs, !.call = call]
    /\ UNCHANGED <<powVars, callIO, isRegs>>

\* history.load_mapping(height, mapping)
LoadMapping ==
    /\ history.op = "open"
    /\ \E height \in Heights, mapping \in MappingNames :
          LET entry_path == EntryPath(history.path, height, mapping)
              found == FilesAt(history.files, entry_path)
          IN  history' =
                 [history EXCEPT
                    !.call = [op |-> "load_mapping", height |-> height, mapping |-> mapping,
                              data |-> Unserializable, ok |-> found # {},
                              text |-> IF found = {} THEN <<>>
                                       ELSE (CHOOSE f \in found : TRUE).text,
                              files_before |-> history.files,
                              dirs_before |-> history.dirs]]
    /\ UNCHANGED <<powVars, callIO, isRegs>>

NextHistory ==
    \/ HistoryNew
    \/ StoreMapping
    \/ LoadMapping

SpecHistory == Init /\ [][NextHistory]_vars

\* What was stored last for a height and a mapping, if anything.
LatestFor(height, mapping) ==
    {l \in history.latest : l.height = height /\ l.mapping = mapping}

\* C29: load_mapping of a height and a mapping returns the JSON text of the
\* last data stored for them, whatever was stored for other heights and
\* mappings, and an error when nothing was; it changes no file and no
\* directory; a store that fails to serialize its data changes no file.
C29_LastWriteWins ==
    history.op = "open" =>
        /\ history.call.op = "load_mapping" =>
              LET stored == LatestFor(history.call.height, history.call.mapping)
              IN  /\ history.call.ok <=> stored # {}
                  /\ history.call.ok =>
                        \A l \in stored : history.call.text = ToStringPretty(l.data).text
                  /\ history.files = history.call.files_before
                  /\ history.dirs = history.call.dirs_before
        /\ (history.call.op = "store_mapping" /\ ~history.call.ok) =>
              history.files = history.call.files_before
        /\ \A h \in Heights, m \in MappingNames : Cardinality(LatestFor(h, m)) <= 1
        /\ Cardinality(history.files) = Cardinality(history.latest)

C29_Witness ==
    /\ history.op = "open"
    /\ history.call.op = "load_mapping"
    /\ history.call.height = 1
    /\ history.call.mapping = "bonded"
    /\ history.call.ok
    /\ history.call.text = ToStringPretty(1).text
    /\ [height |-> 11, mapping |-> "bonded", data |-> 0] \in history.latest
    /\ [height |-> 1, mapping |-> "delegated", data |-> 0] \in history.latest

-----------------------------------------------------------------------------
(* The history directories of two VMs.                                     *)

\* History::new for two VMs, each with its network and its storage mode.
HistoryPaths ==
    /\ history.op = "none"
    /\ \E n1 \in Networks, n2 \in Networks, m1 \in StorageModes, m2 \in StorageModes :
          history' = [op |-> "paths",
                      network1 |-> n1, mode1 |-> m1,
                      path1 |-> history_directory_path(n1, m1),
                      network2 |-> n2, mode2 |-> m2,
                      path2 |-> history_directory_path(n2, m2)]
    /\ UNCHANGED <<powVars, callIO, isRegs>>

\* The two VMs are dropped.
HistoryPathsNext ==
    /\ history.op = "paths"
    /\ history' = NoHistory
    /\ UNCHANGED <<powVars, callIO, isRegs>>

NextHistoryPaths ==
    \/ HistoryPaths
    \/ HistoryPathsNext

SpecHistoryPaths == Init /\ [][NextHistoryPaths]_vars

\* The last component of a path.
LastOf(path) == path[Len(path)]

\* Two different directories of one parent directory.
Sibling(path, other) ==
    /\ Len(other) > 0
    /\ Len(path) = Len(other)
    /\ Pop(path) = Pop(other)
    /\ path # other

\* The name of the directory of the first VM is the one of its mode, and the
\* directories of the two VMs differ or have the same name as their networks,
\* modes and ids ask.
HistoryNames ==
    /\ history.mode1.kind = "Development" =>
          LastOf(history.path1) =
              <<".", "history", "-">> \o Decimal(history.network1)
              \o <<"-">> \o Decimal(history.mode1.id)
    /\ history.mode1.kind \in {"Production", "Custom"} =>
          LastOf(history.path1) = <<"history", "-">> \o Decimal(history.network1)
    /\ (/\ history.mode1.kind = "Development"
        /\ history.mode2.kind = "Development"
        /\ history.mode1.id # history.mode2.id) => history.path1 # history.path2
    /\ history.network1 # history.network2 => history.path1 # history.path2
    /\ (/\ history.mode1.kind \in {"Production", "Custom"}
        /\ history.mode2.kind \in {"Production", "Custom"}
        /\ history.network1 = history.network2) =>
          LastOf(history.path1) = LastOf(history.path2)

=============================================================================
